---- MODULE Spec2Model ----
(***************************************************************************)
(* Model of the scene-graph / rigid-body core of FirstOpenGLProject:       *)
(* Object3D (src/src/Object3D.cpp), TranslationAnimation                   *)
(* (src/include/TranslationAnimation.h) and the frame loop of main()       *)
(* (src/src/main.cpp).                                                     *)
(*                                                                         *)
(* Numbers.  The program computes in float; the model computes in          *)
(* integers (fixed point, one unit = 1.0f) and rounds a quotient toward    *)
(* zero.  dt is a whole number of time units.  A float NaN is the value    *)
(* NaN below; it is produced by normalize of the zero vector and by 0/0.   *)
(* In the model matrix an angle is a whole number of quarter turns, so     *)
(* that its sine and cosine are integers.                                  *)
(***************************************************************************)
EXTENDS Integers, Sequences, FiniteSets, TLC

VARIABLES
    objects,    \* Scene::objects, flattened: node id -> Object3D fields
    ops,        \* number of operations performed so far (bounds the run)
    last,       \* the operation performed last: [op, node, dt]
    prev,       \* the value of objects before the last operation
    fall,       \* per node: the run of airborne ticks since its last other op
    animators,  \* Scene::animators
    prevAnimators, \* the value of animators before the last Animator::tick
    sumDt,      \* per animator: the sum of the dt its tick was given since start()
    pc,         \* position of main() in its frame loop
    running,    \* main: bool running
    diff,       \* main: diff.asSeconds() of the current frame
    idx,        \* index of the range-for loop main is in
    frame,      \* the steps main has performed in the current frame, in order
    frames,     \* number of frames displayed so far (bounds the run)
    uniforms,   \* the uniforms of Scene::program the lighting functions set
    prevUniforms, \* the value of uniforms before the last set-up call
    currentPointLights, \* main.cpp: int currentPointLights
    passed,     \* the indices addPointLight was called with, in order
    built,      \* the nodes constructed so far
    drawn       \* the calls render made on the shader and the meshes, in order

mainVars == <<animators, prevAnimators, sumDt, pc, running, diff, idx, frame, frames>>

sceneVars == <<uniforms, prevUniforms, currentPointLights, passed, built, drawn>>

vars == <<objects, ops, last, prev, fall,
          animators, prevAnimators, sumDt, pc, running, diff, idx, frame, frames,
          uniforms, prevUniforms, currentPointLights, passed, built, drawn>>

\* the variables of scene set-up and rendering, where they play no part
SceneIdle ==
    /\ uniforms = [numPointLights |-> 0, pointLights |-> <<>>]
    /\ prevUniforms = uniforms
    /\ currentPointLights = 0
    /\ passed = <<>>
    /\ built = {}
    /\ drawn = <<>>

----------------------------------------------------------------------------
(* Bounds of the model *)

MaxOps == 3       \* operations in one run of the physics specification
MaxMass == 2      \* masses given to setMass are 0..MaxMass
MaxDt == 2        \* dt given to tick is 0..MaxDt
MaxDuration == 2  \* animation durations are 1..MaxDuration
MaxFrames == 4    \* frames of the main loop in one run
MaxCalls == 3     \* set-up calls in one run of the set-up specification
MaxSceneOps == 2  \* transformations of the objects before the scene is rendered

----------------------------------------------------------------------------
(* The node tree: nodes 1 and 3 are the scene's root objects, node 2 is   *)
(* the only child of node 1, nodes 4 and 5 are the children of node 3 and  *)
(* node 6 is the child of node 5.                                          *)

Nodes == {1, 2, 3, 4, 5, 6}

Roots == <<1, 3>>

m_children(n) ==
    IF n = 1 THEN <<2>>
    ELSE IF n = 3 THEN <<4, 5>>
    ELSE IF n = 5 THEN <<6>>
    ELSE <<>>

----------------------------------------------------------------------------
(* glm::vec3 arithmetic *)

NaN == "NaN"

Abs(a) == IF a < 0 THEN -a ELSE a

Inf == "inf"

NegInf == "-inf"

\* float division a / b, rounded toward zero; a / 0 is an infinity or NaN
Quot(a, b) ==
    IF b = 0 THEN IF a = 0 THEN NaN ELSE IF a > 0 THEN Inf ELSE NegInf
    ELSE IF (a >= 0) = (b > 0) THEN Abs(a) \div Abs(b)
    ELSE -(Abs(a) \div Abs(b))

VAdd(u, v) == <<u[1] + v[1], u[2] + v[2], u[3] + v[3]>>

VScale(v, k) == <<v[1] * k, v[2] * k, v[3] * k>>

VNeg(v) == <<-v[1], -v[2], -v[3]>>

VDiv(v, k) == <<Quot(v[1], k), Quot(v[2], k), Quot(v[3], k)>>

Zero3 == <<0, 0, 0>>

\* floor of the square root
ISqrt(n) == CHOOSE r \in 0..n : r * r <= n /\ (r + 1) * (r + 1) > n

\* glm::normalize(v): v / |v|, kept as numerator and denominator; the zero
\* vector has denominator 0 and every component of the result is NaN.
normalize(v) ==
    [num |-> v,
     den |-> IF v = Zero3 THEN 0
             ELSE ISqrt(v[1] * v[1] + v[2] * v[2] + v[3] * v[3])]

\* std::abs(direction[i]) * k
AbsDirTimes(direction, i, k) ==
    IF direction.den = 0 THEN NaN
    ELSE Quot(Abs(direction.num[i]) * k, direction.den)

RECURSIVE SumForces(_)
SumForces(fs) ==
    IF fs = <<>> THEN Zero3 ELSE VAdd(Head(fs), SumForces(Tail(fs)))

----------------------------------------------------------------------------
(* glm::mat4 arithmetic, the matrices as tuples of rows *)

Identity4 ==
    <<<<1, 0, 0, 0>>, <<0, 1, 0, 0>>, <<0, 0, 1, 0>>, <<0, 0, 0, 1>>>>

\* element (i, j) of the product a * b
MatElement(a, b, i, j) ==
    a[i][1] * b[1][j] + a[i][2] * b[2][j] + a[i][3] * b[3][j] + a[i][4] * b[4][j]

MatRow(a, b, i) ==
    <<MatElement(a, b, i, 1), MatElement(a, b, i, 2),
      MatElement(a, b, i, 3), MatElement(a, b, i, 4)>>

MatMul(a, b) == <<MatRow(a, b, 1), MatRow(a, b, 2), MatRow(a, b, 3), MatRow(a, b, 4)>>

VMul(u, v) == <<u[1] * v[1], u[2] * v[2], u[3] * v[3]>>

\* glm::translate(m, v)
glmTranslate(m, v) ==
    MatMul(m, <<<<1, 0, 0, v[1]>>, <<0, 1, 0, v[2]>>, <<0, 0, 1, v[3]>>, <<0, 0, 0, 1>>>>)

\* glm::scale(m, v)
glmScale(m, v) ==
    MatMul(m, <<<<v[1], 0, 0, 0>>, <<0, v[2], 0, 0>>, <<0, 0, v[3], 0>>, <<0, 0, 0, 1>>>>)

\* cosine and sine of an angle of k quarter turns
Cos(k) == <<1, 0, -1, 0>>[(k % 4) + 1]

Sin(k) == <<0, 1, 0, -1>>[(k % 4) + 1]

\* glm::rotate(m, angle, axis) about a coordinate axis
glmRotate(m, angle, axis) ==
    LET c == Cos(angle)
        s == Sin(angle)
    IN  MatMul(m,
          IF axis = "z"
          THEN <<<<c, -s, 0, 0>>, <<s, c, 0, 0>>, <<0, 0, 1, 0>>, <<0, 0, 0, 1>>>>
          ELSE IF axis = "x"
          THEN <<<<1, 0, 0, 0>>, <<0, c, -s, 0>>, <<0, s, c, 0>>, <<0, 0, 0, 1>>>>
          ELSE <<<<c, 0, s, 0>>, <<0, 1, 0, 0>>, <<-s, 0, c, 0>>, <<0, 0, 0, 1>>>>)

----------------------------------------------------------------------------
(* Object3D *)

GRAVITATIONAL_ACCELERATION == <<0, -38, 0>>

\* x * MU, the friction coefficient of the ground
MuTimes(x) == Quot(x, 2)

\* Object3D::Object3D(meshes, baseTransform); a mesh is its number
Object3D(meshes, baseTransform) ==
    [m_meshes       |-> meshes,
     m_position     |-> Zero3,
     m_orientation  |-> Zero3,
     m_scale        |-> <<1, 1, 1>>,
     m_center       |-> Zero3,
     m_baseTransform |-> baseTransform,
     m_velocity     |-> Zero3,
     m_acceleration |-> Zero3,
     m_mass         |-> 1,
     m_forces       |-> <<VScale(GRAVITATIONAL_ACCELERATION, 1)>>]

\* Object3D::Object3D(meshes), for an object of one mesh
NewObject3D == Object3D(<<1>>, Identity4)

\* Object3D::clearForces
clearForces(o) ==
    [o EXCEPT !.m_forces = <<VScale(GRAVITATIONAL_ACCELERATION, o.m_mass)>>]

\* Object3D::addForce
addForce(o, force) == [o EXCEPT !.m_forces = Append(@, force)]

setMassKeepForces(o, mass) == [o EXCEPT !.m_mass = mass]

\* Object3D::setMass
setMass(o, mass) == clearForces([o EXCEPT !.m_mass = mass])

\* Object3D::setPosition
setPosition(o, position) == [o EXCEPT !.m_position = position]

\* Object3D::setVelocity
setVelocity(o, velocity) == [o EXCEPT !.m_velocity = velocity]

\* Object3D::setAcceleration
setAcceleration(o, acceleration) == [o EXCEPT !.m_acceleration = acceleration]

moveAssign(o, offset) == [o EXCEPT !.m_position = offset]

\* Object3D::move
move(o, offset) == [o EXCEPT !.m_position = VAdd(o.m_position, offset)]

rotateAssign(o, rotation) == [o EXCEPT !.m_orientation = rotation]

\* Object3D::rotate
rotate(o, rotation) == [o EXCEPT !.m_orientation = VAdd(o.m_orientation, rotation)]

\* Object3D::grow
grow(o, growth) == [o EXCEPT !.m_scale = VMul(o.m_scale, growth)]

\* Object3D::buildModelMatrix
buildModelMatrix(o) ==
    LET m1 == glmTranslate(Identity4, o.m_position)
        m2 == glmTranslate(m1, VMul(o.m_center, o.m_scale))
        m3 == glmRotate(m2, o.m_orientation[3], "z")
        m4 == glmRotate(m3, o.m_orientation[1], "x")
        m5 == glmRotate(m4, o.m_orientation[2], "y")
        m6 == glmScale(m5, o.m_scale)
        m7 == glmTranslate(m6, VNeg(o.m_center))
    IN  MatMul(m7, o.m_baseTransform)

\* The friction force tick adds on the ground (Object3D.cpp:158-165)
FrictionForce(o) ==
    LET muX == Abs(MuTimes(GRAVITATIONAL_ACCELERATION[2]))
        muZ == Abs(MuTimes(GRAVITATIONAL_ACCELERATION[2]))
        direction == normalize(<<o.m_velocity[1], 0, o.m_velocity[3]>>)
        xSign == IF o.m_velocity[1] < 0 THEN 1 ELSE -1
        zSign == IF o.m_velocity[3] < 0 THEN 1 ELSE -1
    IN  <<AbsDirTimes(direction, 1, xSign * muX * o.m_mass),
          0,
          AbsDirTimes(direction, 3, zSign * muZ * o.m_mass)>>

GroundForcesNoNormal(o) ==
    IF o.m_position[2] = 0
    THEN LET o1 == addForce(o, FrictionForce(o))
         IN  IF o.m_velocity[1] = 0 THEN clearForces(o1) ELSE o1
    ELSE o

\* tick, the ground branch (Object3D.cpp:156-173): friction, the reset when
\* m_velocity.x == 0, the normal force
GroundForces(o) ==
    IF o.m_position[2] = 0
    THEN LET o1 == addForce(o, FrictionForce(o))
             o2 == IF o.m_velocity[1] = 0 THEN clearForces(o1) ELSE o1
         IN  addForce(o2, VNeg(VScale(GRAVITATIONAL_ACCELERATION, o.m_mass)))
    ELSE o

NewAccelerationUnguarded(o, netForce) ==
    IF o.m_mass > 0 THEN VDiv(netForce, o.m_mass) ELSE netForce

NewAccelerationNoDivide(o, netForce) ==
    IF o.m_mass > 0 THEN netForce ELSE o.m_acceleration

\* tick, Object3D.cpp:181-182
NewAcceleration(o, netForce) ==
    IF o.m_mass > 0 THEN VDiv(netForce, o.m_mass) ELSE o.m_acceleration

ClampGroundNever(p) == p

\* tick, Object3D.cpp:194-195
ClampGround(p) == IF p[2] < 0 THEN <<p[1], 0, p[3]>> ELSE p

\* Object3D::tick, without the recursion into the children
tickNode(o, dt) ==
    LET g  == GroundForces(o)
        netForce == SumForces(g.m_forces)
        a  == NewAcceleration(g, netForce)
        c  == clearForces(g)
        p0 == IF c.m_position[2] < 0 /\ c.m_mass # 0
              THEN <<c.m_position[1], 0, c.m_position[3]>>
              ELSE c.m_position
        v  == VAdd(c.m_velocity, VScale(a, dt))
        p1 == VAdd(p0, VScale(v, dt))
    IN  [c EXCEPT !.m_acceleration = a,
                  !.m_velocity = v,
                  !.m_position = ClampGround(p1)]

\* the nodes tick(dt) on node n reaches: n, then its descendants
RECURSIVE Subtree(_)
RECURSIVE SubtreeOfAll(_)
Subtree(n) == {n} \cup SubtreeOfAll(m_children(n))
SubtreeOfAll(cs) ==
    IF cs = <<>> THEN {} ELSE Subtree(Head(cs)) \cup SubtreeOfAll(Tail(cs))

tickCarryingChildren(objs, n, dt) ==
    LET offset == VAdd(tickNode(objs[n], dt).m_position, VNeg(objs[n].m_position))
    IN  [k \in Nodes |->
            IF k = n THEN tickNode(objs[k], dt)
            ELSE IF k \in Subtree(n) THEN tickNode(move(objs[k], offset), dt)
            ELSE objs[k]]

\* Object3D::tick on node n (Object3D.cpp:155-202): the node's own step, then
\* c.tick(dt) for every child c in the order of m_children
RECURSIVE tick(_, _, _)
RECURSIVE tickChildren(_, _, _)
tick(objs, n, dt) ==
    tickChildren([objs EXCEPT ![n] = tickNode(objs[n], dt)], m_children(n), dt)

\* the loop over m_children at the end of tick (Object3D.cpp:199-201)
tickChildren(objs, cs, dt) ==
    IF cs = <<>> THEN objs
    ELSE tickChildren(tick(objs, Head(cs), dt), Tail(cs), dt)

\* a call render makes: setUniform("model", value) while at node n, or
\* Mesh3D::render of the mesh value of node n
Call(name, n, value) == [call |-> name, node |-> n, value |-> value]

\* the loop over m_meshes in renderRecursive (Object3D.cpp:233-235)
RECURSIVE renderMeshes(_, _)
renderMeshes(n, meshes) ==
    IF meshes = <<>> THEN <<>>
    ELSE <<Call("mesh", n, Head(meshes))>> \o renderMeshes(n, Tail(meshes))

RECURSIVE renderRecursive(_, _, _)
RECURSIVE renderChildren(_, _, _)

renderRecursiveLocalOnly(objs, n, parentMatrix) ==
    LET trueModel == buildModelMatrix(objs[n])
    IN  <<Call("setUniform", n, trueModel)>>
        \o renderMeshes(n, objs[n].m_meshes)
        \o renderChildren(objs, m_children(n), trueModel)

renderRecursiveChildrenFirst(objs, n, parentMatrix) ==
    LET trueModel == MatMul(parentMatrix, buildModelMatrix(objs[n]))
    IN  <<Call("setUniform", n, trueModel)>>
        \o renderChildren(objs, m_children(n), trueModel)
        \o renderMeshes(n, objs[n].m_meshes)

\* Object3D::renderRecursive: the calls it makes, in order
renderRecursive(objs, n, parentMatrix) ==
    LET trueModel == MatMul(parentMatrix, buildModelMatrix(objs[n]))
    IN  <<Call("setUniform", n, trueModel)>>
        \o renderMeshes(n, objs[n].m_meshes)
        \o renderChildren(objs, m_children(n), trueModel)

\* the loop over m_children in renderRecursive (Object3D.cpp:237-239)
renderChildren(objs, cs, trueModel) ==
    IF cs = <<>> THEN <<>>
    ELSE renderRecursive(objs, Head(cs), trueModel)
         \o renderChildren(objs, Tail(cs), trueModel)

\* Object3D::render
render(objs, n) == renderRecursive(objs, n, Identity4)

----------------------------------------------------------------------------
(* Inputs of the operations *)

PositionInputs == {<<2, 60, -1>>, <<1, -3, 0>>}

VelocityInputs ==
    {<<5, 0, 0>>, <<0, 0, 5>>, <<-30, 0, 40>>, <<0, -50, 0>>}

AccelerationInputs == {<<1, 2, 3>>}

MassInputs == 0..MaxMass

ForceInputs == {<<4, 0, -2>>, <<0, 90, 0>>}

OffsetInputs == {<<1, -2, 0>>, <<-1, 2, 0>>}

DtInputs == 0..MaxDt

----------------------------------------------------------------------------
(* The physics specification: operations of Object3D on the two nodes *)

\* a tick of node k that starts off the ground, with mass > 0 and no force
\* added by the caller
Airborne(o) == o.m_position[2] # 0 /\ o.m_mass > 0 /\ Len(o.m_forces) = 1

FallStart(o) == [v0 |-> o.m_velocity, t |-> 0, n |-> 0]

PhysInit ==
    /\ objects = [n \in Nodes |-> NewObject3D]
    /\ ops = 0
    /\ last = [op |-> "new", node |-> 0, dt |-> 0]
    /\ prev = [n \in Nodes |-> NewObject3D]
    /\ fall = [n \in Nodes |-> FallStart(NewObject3D)]
    /\ animators = <<>>
    /\ prevAnimators = <<>>
    /\ sumDt = <<>>
    /\ pc = "start"
    /\ running = TRUE
    /\ diff = 0
    /\ idx = 1
    /\ frame = <<>>
    /\ frames = 0
    /\ SceneIdle

\* an operation other than tick on node n, giving it the fields o
Mutate(name, n, o) ==
    /\ ops < MaxOps
    /\ objects' = [objects EXCEPT ![n] = o]
    /\ ops' = ops + 1
    /\ last' = [op |-> name, node |-> n, dt |-> 0]
    /\ prev' = objects
    /\ fall' = [fall EXCEPT ![n] = FallStart(o)]
    /\ UNCHANGED <<mainVars, sceneVars>>

SetPosition(n) ==
    \E p \in PositionInputs : Mutate("setPosition", n, setPosition(objects[n], p))

SetVelocity(n) ==
    \E v \in VelocityInputs : Mutate("setVelocity", n, setVelocity(objects[n], v))

SetAcceleration(n) ==
    \E a \in AccelerationInputs :
        Mutate("setAcceleration", n, setAcceleration(objects[n], a))

SetMass(n) ==
    \E m \in MassInputs : Mutate("setMass", n, setMass(objects[n], m))

AddForce(n) ==
    \E f \in ForceInputs : Mutate("addForce", n, addForce(objects[n], f))

ClearForces(n) == Mutate("clearForces", n, clearForces(objects[n]))

Move(n) ==
    \E d \in OffsetInputs : Mutate("move", n, move(objects[n], d))

Tick(n) ==
    \E dt \in DtInputs :
        /\ ops < MaxOps
        /\ objects' = tick(objects, n, dt)
        /\ ops' = ops + 1
        /\ last' = [op |-> "tick", node |-> n, dt |-> dt]
        /\ prev' = objects
        /\ fall' = [k \in Nodes |->
                     IF k \notin Subtree(n) THEN fall[k]
                     ELSE IF Airborne(objects[k])
                          THEN [fall[k] EXCEPT !.t = @ + dt, !.n = @ + 1]
                          ELSE FallStart(objects'[k])]
        /\ UNCHANGED <<mainVars, sceneVars>>

\* The operations are explored on the tree of node 1 (a parent and its
\* child); the tree of node 3 is stepped by the same code.
PhysNext ==
    \E n \in Subtree(1) :
        \/ SetPosition(n)
        \/ SetVelocity(n)
        \/ SetAcceleration(n)
        \/ SetMass(n)
        \/ AddForce(n)
        \/ ClearForces(n)
        \/ Move(n)
        \/ Tick(n)

Spec == PhysInit /\ [][PhysNext]_vars

----------------------------------------------------------------------------
(* Properties of Object3D under Spec *)

\* node k was stepped by the last operation, a tick
Ticked(k) == last.op = "tick" /\ k \in Subtree(last.node)

\* the forces the caller added to node k before the last operation
AddedForces(k) == Tail(prev[k].m_forces)

\* squared magnitude of the horizontal velocity
Horizontal2(o) ==
    o.m_velocity[1] * o.m_velocity[1] + o.m_velocity[3] * o.m_velocity[3]

Baseline(o) == <<VScale(GRAVITATIONAL_ACCELERATION, o.m_mass)>>

\* C1: after tick(dt), position.y of the ticked node and of every descendant
\* is >= 0, whatever the position, velocity, acceleration, mass, forces and dt.
C1_GroundClamp ==
    \A k \in Nodes : Ticked(k) => objects[k].m_position[2] >= 0

\* a tick of the root whose child started below the ground with mass 0
C1_Witness ==
    /\ Ticked(2)
    /\ last.node = 1
    /\ prev[2].m_position[2] < 0
    /\ prev[2].m_mass = 0

\* C2: a node with mass > 0 resting at position.y == 0 with nonzero
\* horizontal velocity and no caller-added force has, after every tick, a
\* horizontal velocity no greater in magnitude than before the tick.
C2_HorizontalDeceleration ==
    \A k \in Nodes :
        ( /\ Ticked(k)
          /\ prev[k].m_mass > 0
          /\ prev[k].m_position[2] = 0
          /\ prev[k].m_velocity[2] = 0
          /\ Horizontal2(prev[k]) > 0
          /\ AddedForces(k) = <<>> )
        => Horizontal2(objects[k]) <= Horizontal2(prev[k])

\* C3: every force added with addForce before a tick is in the net force of
\* that tick exactly once: for mass > 0 the tick sets the acceleration to
\* (gravity + ground forces + all added forces) / mass, and afterwards the
\* forces list holds the baseline only.
C3_AddedForcesApplied ==
    \A k \in Nodes :
        (Ticked(k) /\ prev[k].m_mass > 0) =>
            /\ objects[k].m_acceleration =
                   VDiv(VAdd(SumForces(GroundForces(clearForces(prev[k])).m_forces),
                             SumForces(AddedForces(k))),
                        prev[k].m_mass)
            /\ objects[k].m_forces = Baseline(objects[k])

\* C4: after construction, clearForces, setMass and every tick the forces list
\* is exactly <<gravity * mass>>; in every state its first element is
\* gravity * mass for the current mass.
C4_BaselineForce ==
    \A k \in Nodes :
        /\ Len(objects[k].m_forces) >= 1
        /\ objects[k].m_forces[1] = VScale(GRAVITATIONAL_ACCELERATION, objects[k].m_mass)
        /\ ( \/ last.op = "new"
             \/ Ticked(k)
             \/ (last.op \in {"clearForces", "setMass"} /\ last.node = k) )
           => objects[k].m_forces = Baseline(objects[k])

\* setMass to a new, nonzero mass on a node that carried an added force
C4_Witness ==
    \E k \in Nodes :
        /\ last.op = "setMass"
        /\ last.node = k
        /\ objects[k].m_mass = 2
        /\ prev[k].m_mass # 2
        /\ Len(prev[k].m_forces) > 1

\* C5: for a node of mass 0, tick(dt) leaves the acceleration as it was,
\* whatever forces were added and on or off the ground.
C5_MasslessKeepsAcceleration ==
    \A k \in Nodes :
        (Ticked(k) /\ prev[k].m_mass = 0) =>
            objects[k].m_acceleration = prev[k].m_acceleration

\* a tick of a massless node on the ground that carried an added force
C5_Witness ==
    \E k \in Nodes :
        /\ Ticked(k)
        /\ prev[k].m_mass = 0
        /\ prev[k].m_position[2] = 0
        /\ Len(prev[k].m_forces) > 1
        /\ last.dt > 0

\* C6: for mass > 0 and no caller-added force, every tick that starts with
\* position.y != 0 sets the acceleration to the gravitational acceleration,
\* and over a run of such ticks velocity = v0 + g * (sum of the dt).
C6_FreeFall ==
    \A k \in Nodes :
        /\ objects[k].m_velocity =
               VAdd(fall[k].v0, VScale(GRAVITATIONAL_ACCELERATION, fall[k].t))
        /\ (Ticked(k) /\ Airborne(prev[k])) =>
               objects[k].m_acceleration = GRAVITATIONAL_ACCELERATION

\* two airborne ticks in a row, with time passing
C6_Witness ==
    \E k \in Nodes :
        /\ fall[k].n >= 2
        /\ fall[k].t >= 2
        /\ Ticked(k)
        /\ last.dt > 0

\* C14: for every node state and every offset v, move(v) followed by
\* move(-v) gives back the position, and a move leaves the orientation, scale,
\* velocity, acceleration, mass and forces of the node, and every other node,
\* as they were.
C14_MoveRoundTrip ==
    /\ \A k \in Nodes : \A v \in OffsetInputs :
           move(move(objects[k], v), VNeg(v)) = objects[k]
    /\ last.op = "move" =>
           /\ \E v \in OffsetInputs :
                  /\ objects[last.node] = move(prev[last.node], v)
                  /\ move(objects[last.node], VNeg(v)) = prev[last.node]
           /\ objects[last.node] =
                  [prev[last.node] EXCEPT !.m_position = objects[last.node].m_position]
           /\ \A k \in Nodes \ {last.node} : objects[k] = prev[k]

\* move(v) then move(-v) on a node that carries a velocity, an added force
\* and an acceleration: the second move is the last operation and the node
\* is back where the first move found it
C14_Witness ==
    \E k \in Nodes : \E v \in OffsetInputs :
        /\ last.op = "move"
        /\ last.node = k
        /\ ops >= 2
        /\ prev[k].m_position = v
        /\ objects[k].m_position = Zero3
        /\ objects[k] = move(prev[k], VNeg(v))

\* C15: in a tick of a node on the ground (mass > 0, no caller-added force)
\* the friction force is discarded if and only if velocity.x == 0 and
\* velocity.z == 0; when either is nonzero the friction force is the net force
\* of the tick (gravity and the normal force cancel).
C15_ResetIffHorizontallyStopped ==
    \A k \in Nodes :
        ( /\ Ticked(k)
          /\ prev[k].m_mass > 0
          /\ prev[k].m_position[2] = 0
          /\ AddedForces(k) = <<>> )
        => objects[k].m_acceleration =
              IF prev[k].m_velocity[1] = 0 /\ prev[k].m_velocity[3] = 0
              THEN Zero3
              ELSE VDiv(FrictionForce(prev[k]), prev[k].m_mass)

\* C16: tick(dt) on a node steps every node of its subtree with the same dt,
\* and the state a node has afterwards is the step of that node's own prior
\* state: the parent's position, velocity, mass and forces play no part. The
\* nodes outside the subtree keep their state.
C16_ChildrenTickedAlone ==
    last.op = "tick" =>
        \A k \in Nodes :
            objects[k] = IF k \in Subtree(last.node)
                         THEN tickNode(prev[k], last.dt)
                         ELSE prev[k]

\* a tick of the parent that moved the parent, whose velocity and mass
\* differ from the child's, with time passing
C16_Witness ==
    /\ Ticked(2)
    /\ last.node = 1
    /\ last.dt > 0
    /\ prev[1].m_velocity # prev[2].m_velocity
    /\ prev[1].m_mass # prev[2].m_mass
    /\ objects[1].m_position # prev[1].m_position

\* a node at rest: on the ground, not moving, mass > 0, no added force
AtRest(o) ==
    /\ o.m_mass > 0
    /\ o.m_position[2] = 0
    /\ o.m_velocity = Zero3
    /\ Len(o.m_forces) = 1

\* C18: a tick of a node at rest, for any dt >= 0, leaves the position as it
\* was and the velocity (0,0,0), sets the acceleration to (0,0,0) and leaves
\* the baseline gravity term as the only force; the node is at rest again, so
\* the same holds for the next tick.
C18_RestIsFixedPoint ==
    \A k \in Nodes :
        (Ticked(k) /\ AtRest(prev[k])) =>
            /\ objects[k].m_position = prev[k].m_position
            /\ objects[k].m_velocity = Zero3
            /\ objects[k].m_acceleration = Zero3
            /\ objects[k].m_forces = Baseline(objects[k])
            /\ AtRest(objects[k])

\* a tick, with time passing, of a node at rest that had been given an
\* acceleration
C18_Witness ==
    \E k \in Nodes :
        /\ Ticked(k)
        /\ AtRest(prev[k])
        /\ last.dt > 0
        /\ prev[k].m_acceleration # Zero3

----------------------------------------------------------------------------
(* Animation, TranslationAnimation, RotationAnimation *)

\* TranslationAnimation::TranslationAnimation; totalTranslation, and lastDt
\* (the dt of the last advance that applied the animation), are kept beside
\* the fields of the class for the properties to refer to
TranslationAnimation(object, duration, totalTranslation) ==
    [kind |-> "translation",
     object |-> object,
     m_duration |-> duration,
     totalTranslation |-> totalTranslation,
     m_perSecond |-> VDiv(totalTranslation, duration),
     elapsed |-> 0,
     lastDt |-> 0]

\* RotationAnimation::RotationAnimation
RotationAnimation(object, duration, totalRotation) ==
    [kind |-> "rotation",
     object |-> object,
     m_duration |-> duration,
     totalTranslation |-> totalRotation,
     m_perSecond |-> VDiv(totalRotation, duration),
     elapsed |-> 0,
     lastDt |-> 0]

applyTranslationWholeRate(objs, an, d) ==
    [objs EXCEPT ![an.object] = move(@, an.m_perSecond)]

\* TranslationAnimation::applyAnimation
applyTranslation(objs, an, d) ==
    [objs EXCEPT ![an.object] = move(@, VScale(an.m_perSecond, d))]

\* RotationAnimation::applyAnimation
applyRotation(objs, an, d) ==
    [objs EXCEPT ![an.object] = rotate(@, VScale(an.m_perSecond, d))]

applyAnimation(objs, an, d) ==
    IF an.kind = "translation" THEN applyTranslation(objs, an, d)
    ELSE applyRotation(objs, an, d)

\* Animation: finished once elapsed >= duration
finished(an) == an.elapsed >= an.m_duration

\* Animation::tick (advance): nothing once finished; otherwise apply the
\* rate for dt, then add dt to the elapsed time
advance(objs, an, d) ==
    IF finished(an) THEN [objs |-> objs, an |-> an]
    ELSE [objs |-> applyAnimation(objs, an, d),
          an |-> [an EXCEPT !.elapsed = @ + d, !.lastDt = d]]

----------------------------------------------------------------------------
(* Animator: Idle -> Running(index) -> Done *)

\* Animator::Animator followed by addAnimation of every element of queue
NewAnimator(queue) == [m_animations |-> queue, state |-> "Idle", index |-> 0]

startAnimatorAlwaysRunning(a) == [a EXCEPT !.state = "Running", !.index = 1]

\* Animator::start
startAnimator(a) ==
    IF a.m_animations = <<>>
    THEN [a EXCEPT !.state = "Done", !.index = 1]
    ELSE [a EXCEPT !.state = "Running", !.index = 1]

\* Animator::tick: advance the current animation; when it finishes, step to
\* the next one, or to Done after the last.  The dt left over is not passed on.
tickAnimator(objs, a, d) ==
    IF a.state # "Running" THEN [objs |-> objs, a |-> a]
    ELSE LET r == advance(objs, a.m_animations[a.index], d)
             next == IF finished(r.an) THEN a.index + 1 ELSE a.index
         IN  [objs |-> r.objs,
              a |-> [a EXCEPT !.m_animations[a.index] = r.an,
                              !.index = next,
                              !.state = IF next > Len(a.m_animations)
                                        THEN "Done" ELSE "Running"]]

----------------------------------------------------------------------------
(* main(): the scene and the frame loop *)

Kinds == {"translation", "rotation"}

Durations == 1..MaxDuration

Total1 == <<6, 0, -12>>

Total2 == <<0, 12, 6>>

Total3 == <<-6, 6, 0>>

MakeAnimation(kind, object, duration, total) ==
    IF kind = "translation" THEN TranslationAnimation(object, duration, total)
    ELSE RotationAnimation(object, duration, total)

\* the objects of the scene as the scene function leaves them: the roots
\* moved below the ground plane, the child of node 1 moved off it
SceneObjects ==
    [n \in Nodes |-> move(NewObject3D, IF n = 2 THEN <<0, -5, 10>> ELSE <<1, -2, 0>>)]

\* the scenes: one animator running two animations on node 1 in sequence
\* (as cube() does), and a second animator with an empty queue or with one
\* translation of the child node 2 (as lifeOfPi() animates a child)
Scenes ==
    { << NewAnimator(<<MakeAnimation(k1, 1, d1, Total1), MakeAnimation(k2, 1, d2, Total2)>>),
         NewAnimator(q) >> :
        k1 \in Kinds, k2 \in Kinds, d1 \in Durations, d2 \in Durations,
        q \in {<<>>, <<TranslationAnimation(2, 2, Total3)>>} }

MainInit ==
    /\ objects = SceneObjects
    /\ animators \in Scenes
    /\ prevAnimators = animators
    /\ sumDt = [a \in 1..2 |-> 0]
    /\ pc = "start"
    /\ running = TRUE
    /\ diff = 0
    /\ idx = 1
    /\ frame = <<>>
    /\ frames = 0
    /\ ops = 0
    /\ last = [op |-> "new", node |-> 0, dt |-> 0]
    /\ prev = SceneObjects
    /\ fall = [n \in Nodes |-> FallStart(NewObject3D)]
    /\ SceneIdle

Event(e, id) == [ev |-> e, id |-> id]

StartAnimatorsFirstOnly ==
    /\ pc = "start"
    /\ animators' = [animators EXCEPT ![1] = startAnimator(@)]
    /\ prevAnimators' = animators'
    /\ pc' = "events"
    /\ UNCHANGED <<ops, fall, objects, prev, last, sumDt, running, diff, idx, frame, frames>>
    /\ UNCHANGED sceneVars

\* main.cpp:481-484: start the animators
StartAnimators ==
    /\ pc = "start"
    /\ animators' = [a \in DOMAIN animators |-> startAnimator(animators[a])]
    /\ prevAnimators' = animators'
    /\ pc' = "events"
    /\ UNCHANGED <<ops, fall, objects, prev, last, sumDt, running, diff, idx, frame, frames>>
    /\ UNCHANGED sceneVars

\* main.cpp:519-590: while (running): poll the window's events (a Closed or
\* Escape event clears running; the rest of the frame still runs), then
\* measure the time since the last frame
PollEvents ==
    /\ pc = "events"
    /\ running
    /\ frames < MaxFrames
    /\ \E closed \in BOOLEAN : running' = ~closed
    /\ \E d \in DtInputs : diff' = d
    /\ frame' = <<>>
    /\ idx' = 1
    /\ pc' = "animators"
    /\ UNCHANGED <<ops, fall, objects, prev, last, animators, prevAnimators, sumDt, frames>>
    /\ UNCHANGED sceneVars

\* main.cpp:642-644: one iteration of the loop over myScene.animators
TickAnimator ==
    /\ pc = "animators"
    /\ idx <= Len(animators)
    /\ LET r == tickAnimator(objects, animators[idx], diff)
       IN  /\ objects' = r.objs
           /\ animators' = [animators EXCEPT ![idx] = r.a]
    /\ prev' = objects
    /\ prevAnimators' = animators
    /\ last' = [op |-> "animator", node |-> idx, dt |-> diff]
    /\ sumDt' = [sumDt EXCEPT ![idx] = @ + diff]
    /\ frame' = Append(frame, Event("animator", idx))
    /\ idx' = idx + 1
    /\ UNCHANGED <<ops, fall, pc, running, diff, frames>>
    /\ UNCHANGED sceneVars

\* main.cpp:647: glClear, once every animator has been ticked
Clear ==
    /\ pc = "animators"
    /\ idx > Len(animators)
    /\ frame' = Append(frame, Event("clear", 0))
    /\ idx' = 1
    /\ pc' = "render"
    /\ UNCHANGED <<ops, fall, objects, prev, last, animators, prevAnimators, sumDt, running, diff, frames>>
    /\ UNCHANGED sceneVars

\* main.cpp:649-651: one iteration of the loop over myScene.objects
RenderObject ==
    /\ pc = "render"
    /\ idx <= Len(Roots)
    /\ frame' = Append(frame, Event("render", Roots[idx]))
    /\ idx' = idx + 1
    /\ UNCHANGED <<ops, fall, objects, prev, last, animators, prevAnimators, sumDt, pc, running, diff, frames>>
    /\ UNCHANGED sceneVars

\* main.cpp:652: window.display() ends the frame
Display ==
    /\ pc = "render"
    /\ idx > Len(Roots)
    /\ frame' = Append(frame, Event("display", 0))
    /\ frames' = frames + 1
    /\ pc' = "events"
    /\ UNCHANGED <<ops, fall, objects, prev, last, animators, prevAnimators, sumDt, running, diff, idx>>
    /\ UNCHANGED sceneVars

\* main.cpp:519, 658: the loop ends once running is false
Exit ==
    /\ pc = "events"
    /\ ~running
    /\ pc' = "exit"
    /\ UNCHANGED <<ops, fall, objects, prev, last, animators, prevAnimators, sumDt, running, diff, idx, frame, frames>>
    /\ UNCHANGED sceneVars

MainNext ==
    \/ StartAnimators
    \/ PollEvents
    \/ TickAnimator
    \/ Clear
    \/ RenderObject
    \/ Display
    \/ Exit

SpecMain == MainInit /\ [][MainNext]_vars

----------------------------------------------------------------------------
(* Properties of main(), Animator and Animation under SpecMain *)

\* the frame main has just displayed is complete in frame
FrameDone == frame # <<>> /\ frame[Len(frame)].ev = "display"

Steps(e) == {i \in 1..Len(frame) : frame[i].ev = e}

\* C7: every frame ticks all animators in sequence order, then integrates
\* the physics of every root object with tick(dt), and only then renders the
\* root objects.
C7_FrameOrder ==
    FrameDone =>
        /\ \A a \in 1..Len(animators) : frame[a] = Event("animator", a)
        /\ \A r \in 1..Len(Roots) :
               \E j \in 1..Len(frame) :
                   /\ frame[j] = Event("tick", Roots[r])
                   /\ \A i \in Steps("animator") : i < j
                   /\ \A k \in Steps("render") : j < k
        /\ \A r \in 1..Len(Roots) :
               \E k \in Steps("render") : frame[k] = Event("render", Roots[r])

AllAnimations == animators[1].m_animations \o animators[2].m_animations

\* what the animations of the given kind have applied to node n so far:
\* the sum of (total / duration) * elapsed
RECURSIVE Applied(_, _, _)
Applied(anims, n, kind) ==
    IF anims = <<>> THEN Zero3
    ELSE LET an == Head(anims)
             rest == Applied(Tail(anims), n, kind)
         IN  IF an.object = n /\ an.kind = kind
             THEN VAdd(VScale(VDiv(an.totalTranslation, an.m_duration), an.elapsed), rest)
             ELSE rest

First == animators[1].m_animations[1]

Second == animators[1].m_animations[2]

\* in sequence, never both at once: the second animation has run only if the
\* first has finished, and no tick advances both; node 1 carries what the
\* two have applied
C8_InSequence ==
    /\ Second.elapsed > 0 => finished(First)
    /\ animators[1].state = "Running" =>
           animators[1].index = (IF finished(First) THEN 2 ELSE 1)
    /\ (last.op = "animator" /\ last.node = 1) =>
           \/ First = prevAnimators[1].m_animations[1]
           \/ Second = prevAnimators[1].m_animations[2]
    /\ objects[1].m_orientation =
           VAdd(SceneObjects[1].m_orientation,
                Applied(animators[1].m_animations, 1, "rotation"))
    /\ objects[1].m_position =
           VAdd(SceneObjects[1].m_position,
                Applied(animators[1].m_animations, 1, "translation"))

\* C8 as stated: with a queue of two animations of durations d1 and d2,
\* after ticks summing to t < d1 only the first has been applied; after ticks
\* summing to at least d1 + d2 the Animator is Done and both have been
\* applied, in sequence, no tick applying both.
C8_TwoAnimationsAsStated ==
    pc # "start" =>
        /\ sumDt[1] < First.m_duration =>
               (First.elapsed = sumDt[1] /\ Second.elapsed = 0)
        /\ sumDt[1] >= First.m_duration + Second.m_duration =>
               (animators[1].state = "Done" /\ finished(First) /\ finished(Second))
        /\ C8_InSequence

\* C8, amended: the Animator is Done exactly when each animation has itself
\* run for its duration; that needs ticks summing to at least d1 + d2, and is
\* certain once they sum to e1 + d2, e1 >= d1 being the time the first
\* animation had run when it finished (the excess of the tick that finished
\* it is not passed on to the second).
C8_TwoAnimations ==
    pc # "start" =>
        /\ sumDt[1] < First.m_duration =>
               (First.elapsed = sumDt[1] /\ Second.elapsed = 0)
        /\ animators[1].state = "Done" <=> (finished(First) /\ finished(Second))
        /\ animators[1].state = "Done" =>
               sumDt[1] >= First.m_duration + Second.m_duration
        /\ sumDt[1] >= First.elapsed + Second.m_duration =>
               animators[1].state = "Done"
        /\ C8_InSequence

\* the animator is Done, its first animation having overshot its duration,
\* after a rotation followed by a translation
C8_Witness ==
    /\ animators[1].state = "Done"
    /\ First.elapsed > First.m_duration
    /\ First.kind = "rotation"
    /\ Second.kind = "translation"
    /\ sumDt[1] > First.m_duration + Second.m_duration

\* C9: Done is terminal: once every queued animation has finished, a further
\* tick changes neither the Animator nor any node; start() on an empty queue
\* gives Done at once.
C9_DoneTerminal ==
    /\ pc # "start" =>
           \A a \in 1..Len(animators) :
               /\ animators[a].state # "Idle"
               /\ animators[a].m_animations = <<>> => animators[a].state = "Done"
               /\ animators[a].state = "Done" <=>
                      \A k \in 1..Len(animators[a].m_animations) :
                          finished(animators[a].m_animations[k])
    /\ (last.op = "animator" /\ prevAnimators[last.node].state = "Done") =>
           (animators = prevAnimators /\ objects = prev)

\* a tick with dt > 0 of an animator that was Done after running its queue,
\* beside an animator that start() found with an empty queue
C9_Witness ==
    /\ last.op = "animator"
    /\ last.node = 1
    /\ last.dt > 0
    /\ prevAnimators[1].state = "Done"
    /\ animators[2].m_animations = <<>>
    /\ animators[2].state = "Done"

\* C10: the displacement a TranslationAnimation has applied through move is
\* (T / D) times the dt applied so far; it is finished once elapsed >= D and
\* applies nothing afterwards; the dt applied exceeds D by less than the dt
\* of the tick that finished it.
C10_TranslationRate ==
    /\ \A n \in Nodes :
           objects[n].m_position =
               VAdd(SceneObjects[n].m_position, Applied(AllAnimations, n, "translation"))
    /\ \A k \in 1..Len(AllAnimations) :
           LET an == AllAnimations[k]
           IN  an.kind = "translation" =>
                   /\ VScale(an.m_perSecond, an.m_duration) = an.totalTranslation
                   /\ an.elapsed > 0 => an.elapsed - an.lastDt < an.m_duration
    /\ last.op = "animator" =>
           \A k \in 1..Len(animators[last.node].m_animations) :
               finished(prevAnimators[last.node].m_animations[k]) =>
                   animators[last.node].m_animations[k] =
                       prevAnimators[last.node].m_animations[k]

\* a translation of duration 2 that has been applied for longer than 2, and
\* was ticked again afterwards
C10_Witness ==
    /\ last.op = "animator"
    /\ last.node = 1
    /\ last.dt > 0
    /\ prevAnimators[1].m_animations[1].kind = "translation"
    /\ prevAnimators[1].m_animations[1].m_duration = 2
    /\ prevAnimators[1].m_animations[1].elapsed > 2

----------------------------------------------------------------------------
(* Scene set-up: the calls a scene function of main.cpp makes on the      *)
(* lighting of Scene::program and on an Animator before the frame loop     *)

MAX_POINT_LIGHTS == 20

\* phongInit (main.cpp:60-65), the uniforms the point lights use
phongInit(u) == [u EXCEPT !.numPointLights = 0]

\* addPointLight (main.cpp:109-128); the seven pointLights[index] uniforms
\* are set together and stand here as the light's position
addPointLight(u, current, position, pointLightIndex) ==
    IF pointLightIndex >= MAX_POINT_LIGHTS \/ pointLightIndex < 0
    THEN u
    ELSE LET u1 == IF pointLightIndex >= current
                   THEN [u EXCEPT !.numPointLights = pointLightIndex + 1]
                   ELSE u
         IN  [u1 EXCEPT !.pointLights =
                 [i \in (DOMAIN @) \cup {pointLightIndex} |->
                     IF i = pointLightIndex THEN position ELSE @[i]]]

\* Animator::addAnimation
addAnimation(a, an) == [a EXCEPT !.m_animations = Append(@, an)]

IndexInputs == {-1, 0, 2, 5, MAX_POINT_LIGHTS - 1, MAX_POINT_LIGHTS}

LightInputs == {<<0, 5, 0>>, <<3, 1, -3>>}

\* the durations a scene function may pass to an animation's constructor
CtorDurations == -1..MaxDuration

SetupInit ==
    /\ objects = [n \in Nodes |-> NewObject3D]
    /\ ops = 0
    /\ last = [op |-> "new", node |-> 0, dt |-> 0]
    /\ prev = objects
    /\ fall = [n \in Nodes |-> FallStart(NewObject3D)]
    /\ animators = <<NewAnimator(<<>>)>>
    /\ prevAnimators = animators
    /\ sumDt = <<0>>
    /\ pc = "setup"
    /\ running = TRUE
    /\ diff = 0
    /\ idx = 1
    /\ frame = <<>>
    /\ frames = 0
    /\ uniforms = phongInit([numPointLights |-> 0, pointLights |-> <<>>])
    /\ prevUniforms = uniforms
    /\ currentPointLights = 0
    /\ passed = <<>>
    /\ built = {}
    /\ drawn = <<>>

AddPointLight ==
    \E position \in LightInputs : \E pointLightIndex \in IndexInputs :
        /\ ops < MaxCalls
        /\ uniforms' = addPointLight(uniforms, currentPointLights,
                                     position, pointLightIndex)
        /\ prevUniforms' = uniforms
        /\ passed' = Append(passed, pointLightIndex)
        /\ ops' = ops + 1
        /\ last' = [op |-> "addPointLight", node |-> 0, dt |-> 0]
        /\ UNCHANGED <<objects, prev, fall, mainVars>>
        /\ UNCHANGED <<currentPointLights, built, drawn>>

\* animator.addAnimation(std::make_unique<TranslationAnimation>(...)), as
\* the scene functions do for RotationAnimation (main.cpp:295)
AddAnimation ==
    \E duration \in CtorDurations :
        /\ ops < MaxCalls
        /\ animators' = [animators EXCEPT ![1] =
               addAnimation(@, TranslationAnimation(1, duration, Total1))]
        /\ prevAnimators' = animators
        /\ ops' = ops + 1
        /\ last' = [op |-> "addAnimation", node |-> 1, dt |-> 0]
        /\ prevUniforms' = uniforms
        /\ UNCHANGED <<objects, prev, fall, sumDt, pc, running, diff, idx, frame, frames>>
        /\ UNCHANGED <<uniforms, currentPointLights, passed, built, drawn>>

SetupNext ==
    \/ AddPointLight
    \/ AddAnimation

SpecSetup == SetupInit /\ [][SetupNext]_vars

----------------------------------------------------------------------------
(* Properties of the scene set-up under SpecSetup *)

InRange(i) == 0 <= i /\ i < MAX_POINT_LIGHTS

\* the greatest in-range index in the sequence, -1 when there is none
RECURSIVE GreatestInRange(_)
GreatestInRange(indices) ==
    IF indices = <<>> THEN -1
    ELSE LET rest == GreatestInRange(Tail(indices))
             i == Head(indices)
         IN  IF InRange(i) /\ i > rest THEN i ELSE rest

\* C13: no TranslationAnimation with duration <= 0 exists: constructing one
\* is rejected, so none is ever in an Animator's queue.
C13_DurationPositive ==
    \A a \in 1..Len(animators) :
        \A j \in 1..Len(animators[a].m_animations) :
            animators[a].m_animations[j].m_duration > 0

\* C19: after any sequence of addPointLight calls the numPointLights uniform
\* is 1 + the greatest in-range index passed so far and never decreases; a
\* call with an index out of range leaves every uniform as it was.
C19_NumPointLights ==
    /\ uniforms.numPointLights = 1 + GreatestInRange(passed)
    /\ uniforms.numPointLights >= prevUniforms.numPointLights
    /\ (last.op = "addPointLight" /\ ~InRange(passed[Len(passed)]))
           => uniforms = prevUniforms

----------------------------------------------------------------------------
(* Building and rendering a scene: a scene function of main.cpp constructs *)
(* the objects of a tree and transforms them, then the tree is rendered.   *)
(* The tree is that of node 3.                                             *)

\* the mesh lists given to the constructor of Object3D
MeshInputs == {<<>>, <<1, 2>>}

SceneOffsets == {<<2, 0, 0>>, <<1, 0, 0>>}

GrowthInputs == {<<2, 2, 2>>}

RotationInputs == {<<0, 1, 0>>}

SceneInit ==
    /\ objects = [n \in Nodes |-> NewObject3D]
    /\ ops = 0
    /\ last = [op |-> "none", node |-> 0, dt |-> 0]
    /\ prev = objects
    /\ fall = [n \in Nodes |-> FallStart(NewObject3D)]
    /\ animators = <<>>
    /\ prevAnimators = <<>>
    /\ sumDt = <<>>
    /\ pc = "scene"
    /\ running = TRUE
    /\ diff = 0
    /\ idx = 1
    /\ frame = <<>>
    /\ frames = 0
    /\ SceneIdle

\* Object3D(meshes) for node n (Object3D.cpp:17-19, as at main.cpp:213);
\* the nodes are constructed in the order of their numbers
Construct(n) ==
    \E meshes \in MeshInputs :
        /\ drawn = <<>>
        /\ n \notin built
        /\ \A k \in Subtree(3) : k < n => k \in built
        /\ objects' = [objects EXCEPT ![n] = Object3D(meshes, Identity4)]
        /\ built' = built \cup {n}
        /\ last' = [op |-> "new", node |-> n, dt |-> 0]
        /\ UNCHANGED <<ops, prev, fall, mainVars>>
        /\ UNCHANGED <<uniforms, prevUniforms, currentPointLights, passed, drawn>>

\* an operation that gives the fields o to node n, the node the scene
\* function has just constructed and not yet handed over
Transform(name, n, o) ==
    /\ drawn = <<>>
    /\ n \in built
    /\ last.node = n
    /\ ops < MaxSceneOps
    /\ objects' = [objects EXCEPT ![n] = o]
    /\ ops' = ops + 1
    /\ last' = [op |-> name, node |-> n, dt |-> 0]
    /\ UNCHANGED <<prev, fall, mainVars, sceneVars>>

Place(n) ==
    \E offset \in SceneOffsets : Transform("move", n, move(objects[n], offset))

Grow(n) ==
    \E growth \in GrowthInputs : Transform("grow", n, grow(objects[n], growth))

Rotate(n) ==
    \E rotation \in RotationInputs :
        Transform("rotate", n, rotate(objects[n], rotation))

\* the range-for over Scene::objects in main (main.cpp:648-651), for the
\* root n once its tree is constructed
Render(n) ==
    /\ drawn = <<>>
    /\ \E r \in 1..Len(Roots) : Roots[r] = n
    /\ Subtree(n) \subseteq built
    /\ drawn' = render(objects, n)
    /\ last' = [op |-> "render", node |-> n, dt |-> 0]
    /\ UNCHANGED <<objects, ops, prev, fall, mainVars>>
    /\ UNCHANGED <<uniforms, prevUniforms, currentPointLights, passed, built>>

SceneNext ==
    \E n \in Subtree(3) :
        \/ Construct(n)
        \/ Place(n)
        \/ Grow(n)
        \/ Rotate(n)
        \/ Render(n)

SpecScene == SceneInit /\ [][SceneNext]_vars

----------------------------------------------------------------------------
(* Properties of construction and rendering under SpecScene *)

\* the parent of a node that is not a root
Parent(n) ==
    CHOOSE p \in Nodes : \E i \in 1..Len(m_children(p)) : m_children(p)[i] = n

\* where in drawn the model matrix of node n is published
PublishedAt(n) ==
    CHOOSE i \in 1..Len(drawn) : drawn[i].call = "setUniform" /\ drawn[i].node = n

Published(n) == drawn[PublishedAt(n)].value

\* the translation of a matrix: where it takes the origin
WorldPosition(m) == <<m[1][4], m[2][4], m[3][4]>>

\* node n is placed by its position only
TranslationOnly(o) ==
    /\ o.m_orientation = Zero3
    /\ o.m_scale = <<1, 1, 1>>
    /\ o.m_baseTransform = Identity4

\* the nodes from the rendered root down to n are placed by position only
RECURSIVE ChainTranslationOnly(_)
ChainTranslationOnly(n) ==
    /\ TranslationOnly(objects[n])
    /\ n # last.node => ChainTranslationOnly(Parent(n))

\* the sum of the positions from the rendered root down to n
RECURSIVE ChainPosition(_)
ChainPosition(n) ==
    IF n = last.node THEN objects[n].m_position
    ELSE VAdd(ChainPosition(Parent(n)), objects[n].m_position)

\* C11: render publishes for every node of the tree the matrix
\* parent * buildModelMatrix(node), where the parent matrix of the root is
\* the identity and that of a child is the matrix published for its parent;
\* when the nodes from the root down to a node are placed by position only,
\* the node is published at the sum of their positions.
C11_PublishedTransform ==
    last.op = "render" =>
        \A n \in Subtree(last.node) :
            /\ Published(n) =
                   MatMul(IF n = last.node THEN Identity4 ELSE Published(Parent(n)),
                          buildModelMatrix(objects[n]))
            /\ ChainTranslationOnly(n) =>
                   /\ WorldPosition(Published(n)) = ChainPosition(n)
                   /\ Published(n) = glmTranslate(Identity4, ChainPosition(n))

\* a child at (1,0,0) under a parent at (2,0,0), published at (3,0,0)
C11_Witness ==
    /\ last.op = "render"
    /\ last.node = 3
    /\ objects[3].m_position = <<2, 0, 0>>
    /\ objects[4].m_position = <<1, 0, 0>>
    /\ ChainTranslationOnly(4)
    /\ WorldPosition(Published(4)) = <<3, 0, 0>>

\* C12: no Object3D with zero meshes exists: constructing one with an empty
\* mesh list fails.
C12_MeshesNonEmpty ==
    \A n \in built : objects[n].m_meshes # <<>>

\* the places in drawn of the calls made at the nodes of the set
CallsAt(nodes) == {i \in 1..Len(drawn) : drawn[i].node \in nodes}

\* C17: in one render of a tree, every node's model matrix is published
\* once, directly followed by the node's meshes in the order of m_meshes,
\* each drawn once; every call of a descendant comes after them; the
\* subtrees of the children come in the order of m_children; no other call
\* is made.
C17_RenderOrder ==
    last.op = "render" =>
        /\ CallsAt(Subtree(last.node)) = 1..Len(drawn)
        /\ \A n \in Subtree(last.node) :
               LET meshes == objects[n].m_meshes
                   cs == m_children(n)
               IN  /\ Cardinality({i \in CallsAt({n}) : drawn[i].call = "setUniform"}) = 1
                   /\ Cardinality(CallsAt({n})) = 1 + Len(meshes)
                   /\ \A j \in 1..Len(meshes) :
                          /\ PublishedAt(n) + j <= Len(drawn)
                          /\ drawn[PublishedAt(n) + j].call = "mesh"
                          /\ drawn[PublishedAt(n) + j].node = n
                          /\ drawn[PublishedAt(n) + j].value = meshes[j]
                   /\ \A i \in CallsAt(Subtree(n) \ {n}) :
                          i > PublishedAt(n) + Len(meshes)
                   /\ \A a, b \in 1..Len(cs) :
                          a < b => \A i \in CallsAt(Subtree(cs[a])) :
                                      \A j \in CallsAt(Subtree(cs[b])) : i < j

\* a render of the tree of node 3 whose root has two meshes, whose first
\* child has meshes and whose second child has none but has a child with
\* meshes
C17_Witness ==
    /\ last.op = "render"
    /\ last.node = 3
    /\ Len(objects[3].m_meshes) = 2
    /\ objects[4].m_meshes # <<>>
    /\ objects[5].m_meshes = <<>>
    /\ objects[6].m_meshes # <<>>

====
